---- MODULE Spec2Model ----
(***************************************************************************)
(* PseudoTopProducer::produce and its helpers                              *)
(* (TopQuarkAnalysis/TopEventProducers/src/PseudoTopProducer.cc).          *)
(*                                                                         *)
(* produce() is one sequential pass over an event: collect the b hadrons   *)
(* of the generated-particle collection, collect the stable leptons,       *)
(* photons and neutrinos of the final-state collection, sort the           *)
(* neutrinos, dress the leptons, build the jets, combine W and top         *)
(* candidates, link the decay tree, put the four collections.  Each of     *)
(* these steps is one action; pc names the step that runs next.            *)
(*                                                                         *)
(* Indices are the 0-based indices of the C++ containers: At(s, i) reads a *)
(* sequence at a 0-based index.  Four-momenta are (E, px, pz) with py = 0 and *)
(* integer components, masses are integer square roots, a pseudorapidity   *)
(* bound is kept as its hyperbolic sine, charges are kept in thirds of the *)
(* elementary charge.                                                      *)
(***************************************************************************)
EXTENDS Integers, Sequences, FiniteSets, TLC

VARIABLES
  genParticle,   \* genParticleHandle: the generated-particle collection (read only)
  finalState,    \* finalStateHandle: the final-state collection (read only)
  pc,            \* the step of produce() that runs next
  bHadronIdxs,   \* std::set<size_t> bHadronIdxs
  leptonIdxs,    \* std::vector<size_t> leptonIdxs
  neutrinos,     \* the neutrino collection
  fjLepJets,     \* std::vector<fastjet::PseudoJet> fjLepJets, each with its sorted constituents
  leptons,       \* the dressed-lepton collection
  lepDauIdxs,    \* std::set<size_t> lepDauIdxs
  jets,          \* the jet collection
  bjetIdxs,      \* std::vector<size_t> bjetIdxs
  ljetIdxs,      \* std::vector<size_t> ljetIdxs
  sel,           \* the selNu1, selNu2, selNu, selJ1, selJ2, selB1, selB2 of the combinator
  pseudoTop,     \* the pseudo-top collection
  event          \* what event.put() has handed to the framework

vars == <<genParticle, finalState, pc, bHadronIdxs, leptonIdxs, neutrinos, fjLepJets,
          leptons, lepDauIdxs, jets, bjetIdxs, ljetIdxs, sel, pseudoTop, event>>

----------------------------------------------------------------------------
(* Bounds of the model.                                                    *)

MaxLeptons == 3      \* dressed leptons handed to the combinator
MaxNeutrinos == 3    \* neutrinos handed to the combinator
MaxJets == 5         \* jets handed to the combinator

----------------------------------------------------------------------------
(* Containers and four-momenta.                                            *)

At(s, i) == s[i + 1]

Abs(x) == IF x < 0 THEN -x ELSE x

Indices(s) == 0 .. (Len(s) - 1)

P4(e, px, pz) == [e |-> e, px |-> px, pz |-> pz]

Plus(a, b) == [e |-> a.e + b.e, px |-> a.px + b.px, pz |-> a.pz + b.pz]

MaxM2 == 4096

SqrtTab == [n \in 0 .. MaxM2 |-> CHOOSE r \in 0 .. 64 : r * r <= n /\ (r + 1) * (r + 1) > n]

\* LorentzVector::mass(): sqrt(m2) for a timelike vector, -sqrt(-m2) otherwise.
Mass(p) ==
  LET m2 == p.e * p.e - p.px * p.px - p.pz * p.pz
  IN  IF m2 >= 0 THEN SqrtTab[m2] ELSE -SqrtTab[-m2]

Pt(p) == Abs(p.px)

\* The configured reference masses.
wMass_ == 8
tMass_ == 17

\* double dm = 1e9: the running best before any combination is seen.
DmInit == 1000000000

----------------------------------------------------------------------------
(* Candidates.  A candidate is [pdgId, charge, status, p4, mothers,        *)
(* daughters]: mothers is its line of ancestors, nearest first (every      *)
(* candidate of the model has at most one mother), daughters the indices   *)
(* of its daughters in its own collection.                                 *)

Candidate(pdgId, charge, status, p4, mothers, daughters) ==
  [pdgId |-> pdgId, charge |-> charge, status |-> status, p4 |-> p4,
   mothers |-> mothers, daughters |-> daughters]

\* reco::GenParticle(q, p4, vertex, pdgId, status, integerCharge), the charge in thirds.
GenParticle(charge3, p4, pdgId, status) ==
  [charge3 |-> charge3, p4 |-> p4, pdgId |-> pdgId, status |-> status,
   daughters |-> <<>>, mothers |-> <<>>]

numberOfMothers(p) == IF p.mothers = <<>> THEN 0 ELSE 1

mother(p) ==
  [pdgId |-> Head(p.mothers).pdgId, status |-> Head(p.mothers).status,
   mothers |-> Tail(p.mothers)]

\* The configured cuts; each eta bound is held as sinh(bound).
leptonMinPt_ == 2
leptonMaxEta_ == 1
jetMinPt_ == 2
jetMaxEta_ == 1

\* abs(fjJet.eta()) > maxEta, with eta = asinh(pz / pt).
AbsEtaExceeds(p, sinhMaxEta) == Abs(p.pz) > sinhMaxEta * Pt(p)

----------------------------------------------------------------------------
(* The particle classifier.                                                *)

\* isBHadron(const unsigned int absPdgId)
isBHadronCode(absPdgId) ==
  IF absPdgId <= 100 THEN FALSE
  ELSE IF absPdgId >= 1000000000 THEN FALSE
  ELSE LET nq3 == (absPdgId \div 10) % 10
           nq2 == (absPdgId \div 100) % 10
           nq1 == (absPdgId \div 1000) % 10
       IN  IF nq3 = 0 THEN FALSE
           ELSE IF nq1 = 0 /\ nq2 = 5 THEN TRUE
           ELSE IF nq1 = 5 THEN TRUE
           ELSE FALSE

NoDaughterLooked(coll, p) == FALSE

\* The daughter loop of isBHadron(p): some direct daughter passes the code test.
HasBHadronDaughter(coll, p) ==
  \E d \in p.daughters : isBHadronCode(Abs(At(coll, d).pdgId))

\* isBHadron(const reco::Candidate* p), p a candidate of coll
isBHadron(coll, p) ==
  IF ~isBHadronCode(Abs(p.pdgId)) THEN FALSE
  ELSE IF HasBHadronDaughter(coll, p) THEN FALSE
  ELSE TRUE

\* isFromHadron(p): the loop over the mothers, here the one mother if any.
RECURSIVE isFromHadron(_)
isFromHadron(p) ==
  IF numberOfMothers(p) = 0 THEN FALSE
  ELSE LET m == mother(p)
       IN  IF numberOfMothers(m) = 0 THEN FALSE
           ELSE IF Abs(m.pdgId) > 100 THEN TRUE
           ELSE isFromHadron(m)

\* Collect unstable B-hadrons.
CollectBHadrons ==
  /\ pc = "bhadrons"
  /\ bHadronIdxs' = { i \in Indices(genParticle) :
                        /\ At(genParticle, i).status # 1
                        /\ isBHadron(genParticle, At(genParticle, i)) }
  /\ pc' = "stables"
  /\ UNCHANGED <<genParticle, finalState, leptonIdxs, neutrinos, fjLepJets, leptons,
                 lepDauIdxs, jets, bjetIdxs, ljetIdxs, sel, pseudoTop, event>>

\* The loop over the final states: [leptonIdxs, neutrinos] after the candidates from i on.
RECURSIVE StablesLoop(_, _)
StablesLoop(i, acc) ==
  IF i >= Len(finalState) THEN acc
  ELSE
    LET p == At(finalState, i)
        absPdgId == Abs(p.pdgId)
    IN  IF p.status # 1 THEN StablesLoop(i + 1, acc)
        ELSE IF numberOfMothers(p) = 0 THEN StablesLoop(i + 1, acc)
        ELSE IF mother(p).status = 4 THEN StablesLoop(i + 1, acc)
        ELSE IF isFromHadron(p) THEN StablesLoop(i + 1, acc)
        ELSE IF absPdgId \in {11, 13, 22}
          THEN StablesLoop(i + 1, [acc EXCEPT !.leptonIdxs = Append(@, i)])
        ELSE IF absPdgId \in {12, 14, 16}
          THEN StablesLoop(i + 1,
                 [acc EXCEPT !.neutrinos =
                    Append(@, GenParticle(3 * p.charge, p.p4, p.pdgId, p.status))])
        ELSE StablesLoop(i + 1, acc)

LessByPt(t1, t2) == Pt(t1.p4) < Pt(t2.p4)

\* GreaterByPt<reco::Candidate>
GreaterByPt(t1, t2) == Pt(t1.p4) > Pt(t2.p4)

Orders(s) ==
  { [k \in 1 .. Len(s) |-> s[f[k]]] :
      f \in { g \in [1 .. Len(s) -> 1 .. Len(s)] : \A a, b \in 1 .. Len(s) : g[a] = g[b] => a = b } }

\* std::sort(begin, end, GreaterByPt): every order of s in which no element is
\* followed by one the comparator puts before it (equal pt: either order).
SortOutcomes(s) ==
  { t \in Orders(s) : \A k, l \in 1 .. Len(t) : k < l => ~GreaterByPt(t[l], t[k]) }

\* Collect stable leptons and neutrinos, then sort the neutrinos by pt.
CollectStables ==
  /\ pc = "stables"
  /\ LET r == StablesLoop(0, [leptonIdxs |-> <<>>, neutrinos |-> <<>>])
     IN  /\ leptonIdxs' = r.leptonIdxs
         /\ neutrinos' \in SortOutcomes(r.neutrinos)
  /\ pc' = "leptons"
  /\ UNCHANGED <<genParticle, finalState, bHadronIdxs, fjLepJets, leptons, lepDauIdxs,
                 jets, bjetIdxs, ljetIdxs, sel, pseudoTop, event>>

----------------------------------------------------------------------------
(* Clustering.  The jet algorithm is any partition of its inputs; a jet's   *)
(* four-momentum is the sum of its constituents'.                          *)

\* fastjet::PseudoJet(px, py, pz, E) with set_user_index(index)
PseudoJet(p4, index) == [p4 |-> p4, user_index |-> index]

RECURSIVE SumP4(_)
SumP4(S) ==
  IF S = {} THEN P4(0, 0, 0)
  ELSE LET x == CHOOSE x \in S : TRUE IN Plus(x.p4, SumP4(S \ {x}))

RECURSIVE Partitions(_)
Partitions(S) ==
  IF S = {} THEN {{}}
  ELSE LET x == CHOOSE x \in S : TRUE
       IN  UNION { { {B \cup {x}} \cup P : P \in Partitions(S \ (B \cup {x})) }
                   : B \in SUBSET (S \ {x}) }

\* fastjet::sorted_by_pt of a set: every order of non-increasing pt.
RECURSIVE SortedByPtOrders(_)
SortedByPtOrders(S) ==
  IF S = {} THEN {<<>>}
  ELSE LET top == { x \in S : \A y \in S : Pt(x.p4) >= Pt(y.p4) }
       IN  UNION { { <<x>> \o t : t \in SortedByPtOrders(S \ {x}) } : x \in top }

\* One jet of every block, its constituents sorted by pt.
RECURSIVE JetsOfBlocks(_)
JetsOfBlocks(blocks) ==
  IF blocks = {} THEN {{}}
  ELSE LET B == CHOOSE B \in blocks : TRUE
       IN  { {j} \cup J :
               j \in { [p4 |-> SumP4(B), fjConstituents |-> o] : o \in SortedByPtOrders(B) },
               J \in JetsOfBlocks(blocks \ {B}) }

\* The jets of one partition: the blocks of pt >= ptmin (inclusive_jets), sorted
\* by pt, each with its constituents sorted by pt.
FjJets(blocks, ptmin) ==
  UNION { SortedByPtOrders(J) :
            J \in JetsOfBlocks({ B \in blocks : Pt(SumP4(B)) >= ptmin }) }

ClusterSequence(inputs, ptmin) ==
  UNION { FjJets(blocks, ptmin) : blocks \in Partitions(inputs) }

----------------------------------------------------------------------------
(* The lepton dresser.                                                     *)

fjLepInputs ==
  { PseudoJet(At(finalState, index).p4, index) :
      index \in { At(leptonIdxs, k) : k \in { k \in Indices(leptonIdxs) :
                                             Pt(At(finalState, At(leptonIdxs, k)).p4) > 0 } } }

KeepsFirst(lepPt, candPt) == lepPt >= candPt

\* lepCand->pt() > cand->pt(): the candidate at hand is passed over.
KeepsLepCand(lepPt, candPt) == lepPt > candPt

\* The loop over the sorted constituents of one lepton jet: lepCand (an index of
\* the final states, -1 while null) and the constituents pushed.
RECURSIVE ConstituentsLoop(_, _, _)
ConstituentsLoop(fjConstituents, k, acc) ==
  IF k >= Len(fjConstituents) THEN acc
  ELSE
    LET index == At(fjConstituents, k).user_index
        cand == At(finalState, index)
        absPdgId == Abs(cand.pdgId)
    IN  IF absPdgId = 11 \/ absPdgId = 13
        THEN IF acc.lepCand # -1
                /\ KeepsLepCand(Pt(At(finalState, acc.lepCand).p4), Pt(cand.p4))
             THEN ConstituentsLoop(fjConstituents, k + 1, acc)
             ELSE ConstituentsLoop(fjConstituents, k + 1,
                    [lepCand |-> index, constituents |-> Append(acc.constituents, index)])
        ELSE ConstituentsLoop(fjConstituents, k + 1,
               [acc EXCEPT !.constituents = Append(@, index)])

UserIndices(fjConstituents) ==
  { fjConstituents[k].user_index : k \in 1 .. Len(fjConstituents) }

\* Keep constituent indices to be used in the next step.
KeepConstituents(acc, fjJet) == acc.lepDauIdxs \cup UserIndices(fjJet.fjConstituents)

\* The loop over the lepton jets: [leptons, lepDauIdxs] after the jets from k on.
RECURSIVE LepJetsLoop(_, _, _)
LepJetsLoop(fjJets, k, acc) ==
  IF k >= Len(fjJets) THEN acc
  ELSE
    LET fjJet == At(fjJets, k)
    IN  IF AbsEtaExceeds(fjJet.p4, leptonMaxEta_) THEN LepJetsLoop(fjJets, k + 1, acc)
        ELSE
          LET c == ConstituentsLoop(fjJet.fjConstituents, 0,
                                    [lepCand |-> -1, constituents |-> <<>>])
          IN  IF c.lepCand = -1 THEN LepJetsLoop(fjJets, k + 1, acc)
              ELSE LepJetsLoop(fjJets, k + 1,
                     [leptons |-> Append(acc.leptons,
                                    [p4 |-> fjJet.p4,
                                     pdgId |-> At(finalState, c.lepCand).pdgId,
                                     charge |-> At(finalState, c.lepCand).charge,
                                     constituents |-> c.constituents]),
                      lepDauIdxs |-> KeepConstituents(acc, fjJet)])

\* Make dressed leptons.
DressLeptons ==
  /\ pc = "leptons"
  /\ \E fjJets \in ClusterSequence(fjLepInputs, leptonMinPt_) :
       LET r == LepJetsLoop(fjJets, 0, [leptons |-> <<>>, lepDauIdxs |-> {}])
       IN  /\ fjLepJets' = fjJets
           /\ leptons' = r.leptons
           /\ lepDauIdxs' = r.lepDauIdxs
  /\ pc' = "jets"
  /\ UNCHANGED <<genParticle, finalState, bHadronIdxs, leptonIdxs, neutrinos, jets,
                 bjetIdxs, ljetIdxs, sel, pseudoTop, event>>

----------------------------------------------------------------------------
(* The jet builder.                                                        *)

\* The stable final states that are no neutrino and no lepton constituent, and
\* every b hadron scaled to a momentum of 1e-20, which is 0 here.
fjJetInputs ==
  { PseudoJet(At(finalState, i).p4, i) :
      i \in { i \in Indices(finalState) :
                /\ At(finalState, i).status = 1
                /\ Pt(At(finalState, i).p4) > 0
                /\ Abs(At(finalState, i).pdgId) \notin {12, 14, 16}
                /\ i \notin lepDauIdxs } }
  \cup
  { PseudoJet(P4(0, 0, 0), index) :
      index \in { index \in bHadronIdxs : Pt(At(genParticle, index).p4) > 0 } }

\* The loop over the jets: [jets, bjetIdxs, ljetIdxs] after the jets from k on.
RECURSIVE JetsLoop(_, _, _)
JetsLoop(fjJets, k, acc) ==
  IF k >= Len(fjJets) THEN acc
  ELSE
    LET fjJet == At(fjJets, k)
    IN  IF AbsEtaExceeds(fjJet.p4, jetMaxEta_) THEN JetsLoop(fjJets, k + 1, acc)
        ELSE
          LET constituents == [j \in 1 .. Len(fjJet.fjConstituents) |->
                                 fjJet.fjConstituents[j].user_index]
              hasBHadron == \E j \in 1 .. Len(constituents) : constituents[j] \in bHadronIdxs
          IN  JetsLoop(fjJets, k + 1,
                [jets |-> Append(acc.jets,
                            [p4 |-> fjJet.p4, pdgId |-> IF hasBHadron THEN 5 ELSE 0,
                             constituents |-> constituents]),
                 bjetIdxs |-> IF hasBHadron THEN Append(acc.bjetIdxs, Len(acc.jets))
                              ELSE acc.bjetIdxs,
                 ljetIdxs |-> IF hasBHadron THEN acc.ljetIdxs
                              ELSE Append(acc.ljetIdxs, Len(acc.jets))])

\* Now proceed to jets.
BuildJets ==
  /\ pc = "jets"
  /\ \E fjJets \in ClusterSequence(fjJetInputs, jetMinPt_) :
       LET r == JetsLoop(fjJets, 0, [jets |-> <<>>, bjetIdxs |-> <<>>, ljetIdxs |-> <<>>])
       IN  /\ jets' = r.jets
           /\ bjetIdxs' = r.bjetIdxs
           /\ ljetIdxs' = r.ljetIdxs
  /\ pc' = "combine"
  /\ UNCHANGED <<genParticle, finalState, bHadronIdxs, leptonIdxs, neutrinos, fjLepJets,
                 leptons, lepDauIdxs, sel, pseudoTop, event>>

----------------------------------------------------------------------------
(* The combinator: the do-while block of produce().                        *)

NoSel == [selNu1 |-> -1, selNu2 |-> -1, selNu |-> -1, selJ1 |-> -1, selJ2 |-> -1,
          selB1 |-> -1, selB2 |-> -1]

ImprovesOrTies(newDm, dm) == newDm <= dm

\* if ( newDm < dm ) { dm = newDm; ... }
Improves(newDm, dm) == newDm < dm

\* The neutrino-pair loops of the dilepton channel: i outer, j inner, i == j skipped.
RECURSIVE NuPairLoop(_, _, _, _, _)
NuPairLoop(lepton1, lepton2, i, j, best) ==
  LET n == Len(neutrinos)
  IN  IF i >= n THEN best
      ELSE IF j >= n THEN NuPairLoop(lepton1, lepton2, i + 1, 0, best)
      ELSE IF i = j THEN NuPairLoop(lepton1, lepton2, i, j + 1, best)
      ELSE LET dm1 == Abs(Mass(Plus(lepton1.p4, At(neutrinos, i).p4)) - wMass_)
               dm2 == Abs(Mass(Plus(lepton2.p4, At(neutrinos, j).p4)) - wMass_)
               newDm == dm1 + dm2
           IN  NuPairLoop(lepton1, lepton2, i, j + 1,
                          IF Improves(newDm, best.dm)
                          THEN [dm |-> newDm, selNu1 |-> i, selNu2 |-> j]
                          ELSE best)

\* The b-jet-pair loops, the same in both channels: a and b are positions in
\* bjetIdxs, the pair is skipped when the two jet indices are equal.
RECURSIVE BPairLoop(_, _, _, _, _)
BPairLoop(w1LVec, w2LVec, a, b, best) ==
  LET n == Len(bjetIdxs)
  IN  IF a >= n THEN best
      ELSE IF b >= n THEN BPairLoop(w1LVec, w2LVec, a + 1, 0, best)
      ELSE LET i == At(bjetIdxs, a)
               j == At(bjetIdxs, b)
           IN  IF i = j THEN BPairLoop(w1LVec, w2LVec, a, b + 1, best)
               ELSE LET dm1 == Abs(Mass(Plus(w1LVec, At(jets, i).p4)) - tMass_)
                        dm2 == Abs(Mass(Plus(w2LVec, At(jets, j).p4)) - tMass_)
                        newDm == dm1 + dm2
                    IN  BPairLoop(w1LVec, w2LVec, a, b + 1,
                                  IF Improves(newDm, best.dm)
                                  THEN [dm |-> newDm, selB1 |-> i, selB2 |-> j]
                                  ELSE best)

NextSame(a) == a

\* std::next(j1Itr): the inner light-jet iterator starts one past the outer one.
Next1(a) == a + 1

\* The neutrino and light-jet-pair loops of the semileptonic channel: i over the
\* neutrinos, a and b positions in ljetIdxs with b starting at std::next(a).
RECURSIVE NuJetsLoop(_, _, _, _, _)
NuJetsLoop(lepton, i, a, b, best) ==
  LET n == Len(neutrinos)
      m == Len(ljetIdxs)
  IN  IF i >= n THEN best
      ELSE IF a >= m THEN NuJetsLoop(lepton, i + 1, 0, Next1(0), best)
      ELSE IF b >= m THEN NuJetsLoop(lepton, i, a + 1, Next1(a + 1), best)
      ELSE LET j1 == At(ljetIdxs, a)
               j2 == At(ljetIdxs, b)
               dm1 == Abs(Mass(Plus(lepton.p4, At(neutrinos, i).p4)) - wMass_)
               dm2 == Abs(Mass(Plus(At(jets, j1).p4, At(jets, j2).p4)) - wMass_)
               newDm == dm1 + dm2
           IN  NuJetsLoop(lepton, i, a, b + 1,
                          IF Improves(newDm, best.dm)
                          THEN [dm |-> newDm, selNu |-> i, selJ1 |-> j1, selJ2 |-> j2]
                          ELSE best)

DileptonTreeShort(q1, q2, lepton1, lepton2, nu1, nu2, bJet1, bJet2) ==
  LET w1LVec == Plus(lepton1.p4, nu1.p4)
      t1LVec == Plus(w1LVec, bJet1.p4)
  IN  << GenParticle(2 * q1, t1LVec, q1 * 6, 3),
         GenParticle(3 * q1, w1LVec, q1 * 24, 3),
         GenParticle(-q1, bJet1.p4, q1 * 5, 1),
         GenParticle(3 * q1, lepton1.p4, lepton1.pdgId, 1),
         GenParticle(0, nu1.p4, nu1.pdgId, 1) >>

\* The ten candidates of the dilepton channel in push_back order: t1, t2, w1, b1,
\* l1, n1, w2, b2, l2, n2.
DileptonTree(q1, q2, lepton1, lepton2, nu1, nu2, bJet1, bJet2) ==
  LET w1LVec == Plus(lepton1.p4, nu1.p4)
      w2LVec == Plus(lepton2.p4, nu2.p4)
      t1LVec == Plus(w1LVec, bJet1.p4)
      t2LVec == Plus(w2LVec, bJet2.p4)
      t1 == GenParticle(2 * q1, t1LVec, q1 * 6, 3)
      w1 == GenParticle(3 * q1, w1LVec, q1 * 24, 3)
      b1 == GenParticle(-q1, bJet1.p4, q1 * 5, 1)
      l1 == GenParticle(3 * q1, lepton1.p4, lepton1.pdgId, 1)
      n1 == GenParticle(0, nu1.p4, nu1.pdgId, 1)
      t2 == GenParticle(2 * q2, t2LVec, q2 * 6, 3)
      w2 == GenParticle(3 * q2, w2LVec, q2 * 24, 3)
      b2 == GenParticle(-q1, bJet2.p4, q2 * 5, 1)
      l2 == GenParticle(3 * q2, lepton2.p4, lepton2.pdgId, 1)
      n2 == GenParticle(0, nu2.p4, nu2.pdgId, 1)
  IN  <<t1, t2, w1, b1, l1, n1, w2, b2, l2, n2>>

\* The ten candidates of the semileptonic channel in push_back order: t1, t2, w1,
\* b1, l1, n1, w2, b2, u2, d2.
SemileptonTree(q, lepton, nu1, wJet1, wJet2, bJet1, bJet2) ==
  LET w1LVec == Plus(lepton.p4, nu1.p4)
      w2LVec == Plus(wJet1.p4, wJet2.p4)
      t1LVec == Plus(w1LVec, bJet1.p4)
      t2LVec == Plus(w2LVec, bJet2.p4)
      t1 == GenParticle(2 * q, t1LVec, q * 6, 3)
      w1 == GenParticle(3 * q, w1LVec, q * 24, 3)
      b1 == GenParticle(-q, bJet1.p4, q * 5, 1)
      l1 == GenParticle(3 * q, lepton.p4, lepton.pdgId, 1)
      n1 == GenParticle(0, nu1.p4, nu1.pdgId, 1)
      t2 == GenParticle(-2 * q, t2LVec, -q * 6, 3)
      w2 == GenParticle(-3 * q, w2LVec, -q * 24, 3)
      b2 == GenParticle(0, bJet2.p4, -q * 5, 1)
      u2 == GenParticle(0, wJet1.p4, -2 * q, 1)
      d2 == GenParticle(0, wJet2.p4, q, 1)
  IN  <<t1, t2, w1, b1, l1, n1, w2, b2, u2, d2>>

SameSignMissed(q1, q2) == q1 * q2 > 1

\* if ( q1*q2 > 0 ) break;
SameSign(q1, q2) == q1 * q2 > 0

\* The dilepton channel: [tree, sel] as the block leaves them.
Dilepton ==
  LET q1 == At(leptons, 0).charge
      q2 == At(leptons, 1).charge
  IN  IF SameSign(q1, q2) THEN [tree |-> <<>>, sel |-> NoSel]
      ELSE
        LET lepton1 == IF q1 > 0 THEN At(leptons, 0) ELSE At(leptons, 1)
            lepton2 == IF q1 > 0 THEN At(leptons, 1) ELSE At(leptons, 0)
            nu == NuPairLoop(lepton1, lepton2, 0, 0,
                             [dm |-> DmInit, selNu1 |-> -1, selNu2 |-> -1])
            s1 == [NoSel EXCEPT !.selNu1 = nu.selNu1, !.selNu2 = nu.selNu2]
        IN  IF nu.dm >= DmInit THEN [tree |-> <<>>, sel |-> s1]
            ELSE
              LET nu1 == At(neutrinos, nu.selNu1)
                  nu2 == At(neutrinos, nu.selNu2)
                  w1LVec == Plus(lepton1.p4, nu1.p4)
                  w2LVec == Plus(lepton2.p4, nu2.p4)
                  bb == BPairLoop(w1LVec, w2LVec, 0, 0,
                                  [dm |-> DmInit, selB1 |-> -1, selB2 |-> -1])
                  s2 == [s1 EXCEPT !.selB1 = bb.selB1, !.selB2 = bb.selB2]
              IN  IF bb.dm >= DmInit THEN [tree |-> <<>>, sel |-> s2]
                  ELSE [tree |-> DileptonTree(q1, q2, lepton1, lepton2, nu1, nu2,
                                              At(jets, bb.selB1), At(jets, bb.selB2)),
                        sel |-> s2]

\* The semileptonic channel: [tree, sel] as the block leaves them.
Semilepton ==
  LET lepton == At(leptons, 0)
      nj == NuJetsLoop(lepton, 0, 0, Next1(0),
                       [dm |-> DmInit, selNu |-> -1, selJ1 |-> -1, selJ2 |-> -1])
      s1 == [NoSel EXCEPT !.selNu = nj.selNu, !.selJ1 = nj.selJ1, !.selJ2 = nj.selJ2]
  IN  IF nj.dm >= DmInit THEN [tree |-> <<>>, sel |-> s1]
      ELSE
        LET nu1 == At(neutrinos, nj.selNu)
            wJet1 == At(jets, nj.selJ1)
            wJet2 == At(jets, nj.selJ2)
            w1LVec == Plus(lepton.p4, nu1.p4)
            w2LVec == Plus(wJet1.p4, wJet2.p4)
            bb == BPairLoop(w1LVec, w2LVec, 0, 0,
                            [dm |-> DmInit, selB1 |-> -1, selB2 |-> -1])
            s2 == [s1 EXCEPT !.selB1 = bb.selB1, !.selB2 = bb.selB2]
        IN  IF bb.dm >= DmInit THEN [tree |-> <<>>, sel |-> s2]
            ELSE [tree |-> SemileptonTree(lepton.charge, lepton, nu1, wJet1, wJet2,
                                          At(jets, bb.selB1), At(jets, bb.selB2)),
                  sel |-> s2]

\* do { ... } while (false)
DoWhile ==
  IF Len(bjetIdxs) < 2 THEN [tree |-> <<>>, sel |-> NoSel]
  ELSE IF Len(leptons) = 2 /\ Len(neutrinos) >= 2 THEN Dilepton
  ELSE IF Len(leptons) = 1 /\ Len(neutrinos) >= 1 THEN Semilepton
  ELSE [tree |-> <<>>, sel |-> NoSel]

Combine ==
  /\ pc = "combine"
  /\ pseudoTop' = DoWhile.tree
  /\ sel' = DoWhile.sel
  /\ pc' = "link"
  /\ UNCHANGED <<genParticle, finalState, bHadronIdxs, leptonIdxs, neutrinos, fjLepJets, leptons,
                 lepDauIdxs, jets, bjetIdxs, ljetIdxs, event>>

----------------------------------------------------------------------------
(* The decay tree.                                                         *)

\* pseudoTop->at(i).addDaughter(GenParticleRef(pseudoTopRefHandle, d))
addDaughter(tree, i, d) == [tree EXCEPT ![i + 1].daughters = Append(@, d)]

addMotherDropped(tree, i, m) == tree

\* pseudoTop->at(i).addMother(GenParticleRef(pseudoTopRefHandle, m))
addMother(tree, i, m) == [tree EXCEPT ![i + 1].mothers = Append(@, m)]

\* One parent with its two children: two addDaughter, then two addMother.
LinkPair(tree, parent, c1, c2) ==
  addMother(addMother(addDaughter(addDaughter(tree, parent, c1), parent, c2),
                      c1, parent),
            c2, parent)

LinkedTree(tree) ==
  IF Len(tree) = 10
  THEN LinkPair(LinkPair(LinkPair(LinkPair(tree, 0, 2, 3), 2, 4, 5), 1, 6, 7), 6, 8, 9)
  ELSE tree

LinkDecayTree ==
  /\ pc = "link"
  /\ pseudoTop' = LinkedTree(pseudoTop)
  /\ pc' = "put"
  /\ UNCHANGED <<genParticle, finalState, bHadronIdxs, leptonIdxs, neutrinos, fjLepJets, leptons,
                 lepDauIdxs, jets, bjetIdxs, ljetIdxs, sel, event>>

\* event.put of the four collections.
Put ==
  /\ pc = "put"
  /\ event' = [neutrinos |-> neutrinos, leptons |-> leptons, jets |-> jets,
               pseudoTop |-> pseudoTop]
  /\ pc' = "done"
  /\ UNCHANGED <<genParticle, finalState, bHadronIdxs, leptonIdxs, neutrinos, fjLepJets, leptons,
                 lepDauIdxs, jets, bjetIdxs, ljetIdxs, sel, pseudoTop>>

----------------------------------------------------------------------------
(* The combinator on its own: produce() from the do-while block on, started *)
(* with every collection the earlier steps can hand over within the bounds. *)

NoEvent == [neutrinos |-> <<>>, leptons |-> <<>>, jets |-> <<>>, pseudoTop |-> <<>>]

\* Dressed leptons arrive sorted by pt; the charge is that of the representative
\* electron (pdgId 11, charge -1) or positron (pdgId -11, charge +1).
LeptonAt(k, q) ==
  [p4 |-> P4(6 - k, 6 - k, 0), pdgId |-> -11 * q, charge |-> q, constituents |-> <<>>]

LeptonLists ==
  UNION { { [k \in 1 .. n |-> LeptonAt(k, qs[k])] : qs \in [1 .. n -> {-1, 1}] }
          : n \in 0 .. MaxLeptons }

NuKinds == { GenParticle(0, P4(8, -8, 0), 12, 1), GenParticle(0, P4(3, -3, 0), -14, 1) }

SortedByPt(s) == \A k \in 1 .. (Len(s) - 1) : Pt(s[k].p4) >= Pt(s[k + 1].p4)

NuLists ==
  UNION { { s \in [1 .. n -> NuKinds] : SortedByPt(s) } : n \in 0 .. MaxNeutrinos }

\* Two b-tagged and two light jets of four different pt.
JetKinds == { [p4 |-> P4(10, 6, 0), pdgId |-> 5, constituents |-> <<>>],
              [p4 |-> P4(5, 4, 0), pdgId |-> 0, constituents |-> <<>>],
              [p4 |-> P4(5, -3, 0), pdgId |-> 5, constituents |-> <<>>],
              [p4 |-> P4(4, -2, 0), pdgId |-> 0, constituents |-> <<>>] }

JetLists ==
  UNION { { s \in [1 .. n -> JetKinds] : SortedByPt(s) } : n \in 0 .. MaxJets }

\* The jet indices of one flavour, in jet order.
RECURSIVE IdxsOf(_, _, _)
IdxsOf(js, k, isB) ==
  IF k >= Len(js) THEN <<>>
  ELSE IF (At(js, k).pdgId = 5) = isB THEN <<k>> \o IdxsOf(js, k + 1, isB)
  ELSE IdxsOf(js, k + 1, isB)

InitCombinator ==
  /\ genParticle = <<>>
  /\ finalState = <<>>
  /\ pc = "combine"
  /\ bHadronIdxs = {}
  /\ leptonIdxs = <<>>
  /\ fjLepJets = <<>>
  /\ lepDauIdxs = {}
  /\ leptons \in LeptonLists
  /\ neutrinos \in NuLists
  /\ jets \in JetLists
  /\ bjetIdxs = IdxsOf(jets, 0, TRUE)
  /\ ljetIdxs = IdxsOf(jets, 0, FALSE)
  /\ sel = NoSel
  /\ pseudoTop = <<>>
  /\ event = NoEvent

NextCombinator == Combine \/ LinkDecayTree \/ Put

SpecCombinator == InitCombinator /\ [][NextCombinator]_vars

----------------------------------------------------------------------------
(* produce() as a whole, on every event within the bounds.  The two input  *)
(* tags may name one collection or two.                                    *)

MaxFinal == 3   \* candidates of the final-state collection
MaxGen == 1     \* candidates of a generated-particle collection of its own

Prompt == << [pdgId |-> 24, status |-> 3], [pdgId |-> 2212, status |-> 4] >>

ViaTau == << [pdgId |-> -15, status |-> 2], [pdgId |-> 24, status |-> 3],
             [pdgId |-> 2212, status |-> 4] >>

FromHadron == << [pdgId |-> 511, status |-> 2], [pdgId |-> 2212, status |-> 4] >>

FromBeam == << [pdgId |-> 2212, status |-> 4] >>

FinalKinds ==
  { Candidate(11, -1, 1, P4(1, 1, 0), Prompt, {}),        \* e-, soft
    Candidate(11, -1, 1, P4(2, 2, 0), Prompt, {}),        \* e-
    Candidate(11, -1, 1, P4(5, 3, 4), Prompt, {}),        \* e-, forward
    Candidate(-13, 1, 1, P4(2, 2, 0), ViaTau, {}),        \* mu+ of a tau
    Candidate(22, 0, 1, P4(2, 2, 0), Prompt, {}),         \* photon
    Candidate(22, 0, 1, P4(1, 1, 0), FromBeam, {}),       \* photon off the beam
    Candidate(12, 0, 1, P4(1, 1, 0), Prompt, {}),         \* nu_e, soft
    Candidate(-14, 0, 1, P4(2, 2, 0), ViaTau, {}),        \* anti-nu_mu
    Candidate(211, 1, 1, P4(2, 2, 0), FromHadron, {}),    \* pi+
    Candidate(511, 0, 2, P4(2, 2, 0), Prompt, {}) }       \* B0, unstable

GenKinds ==
  { Candidate(511, 0, 2, P4(2, 2, 0), Prompt, {}),        \* B0, unstable
    Candidate(22, 0, 1, P4(1, 1, 0), Prompt, {}) }        \* photon

SeqsUpTo(S, n) == UNION { [1 .. k -> S] : k \in 0 .. n }

Init ==
  /\ finalState \in SeqsUpTo(FinalKinds, MaxFinal)
  /\ genParticle \in {finalState} \cup SeqsUpTo(GenKinds, MaxGen)
  /\ pc = "bhadrons"
  /\ bHadronIdxs = {}
  /\ leptonIdxs = <<>>
  /\ neutrinos = <<>>
  /\ fjLepJets = <<>>
  /\ leptons = <<>>
  /\ lepDauIdxs = {}
  /\ jets = <<>>
  /\ bjetIdxs = <<>>
  /\ ljetIdxs = <<>>
  /\ sel = NoSel
  /\ pseudoTop = <<>>
  /\ event = NoEvent

Next ==
  \/ CollectBHadrons
  \/ CollectStables
  \/ DressLeptons
  \/ BuildJets
  \/ Combine
  \/ LinkDecayTree
  \/ Put

Spec == Init /\ [][Next]_vars

----------------------------------------------------------------------------
(* The b-hadron pass on its own, on decay chains: the first candidate       *)
(* ranges over HeadCodes, the later ones over DauKinds, and a candidate's   *)
(* daughters are any later candidates.                                     *)

MaxDecay == 3   \* candidates of a decay chain

HeadCodes ==
  { 5, 22, 100, 101, 111, 411, 503, 511, -511, 513, 521, -521, 531, 541, 553, 4122,
    5103, 5122, -5122, 5232, 10511, 20513, 15122, 999990511, 1000000000, 1000000511 }

DauKinds ==
  { [pdgId |-> 22, status |-> 1], [pdgId |-> 511, status |-> 2],
    [pdgId |-> -5122, status |-> 2], [pdgId |-> 411, status |-> 2] }

HeadKinds == { [pdgId |-> h, status |-> st] : h \in HeadCodes, st \in {1, 2} }

\* The mother-daughter pairs n candidates can have: a daughter comes later.
Pairs(n) == { <<i, j>> \in (0 .. n - 1) \X (0 .. n - 1) : i < j }

\* n candidates: one of kind h, then those of kinds t, with the daughters of E.
DecayList(n, h, t, E) ==
  [k \in 1 .. n |->
     LET kind == IF k = 1 THEN h ELSE t[k]
     IN  Candidate(kind.pdgId, 0, kind.status, P4(2, 2, 0), Prompt,
                   { j \in 0 .. n - 1 : <<k - 1, j>> \in E })]

InitClassify ==
  /\ \E n \in 1 .. MaxDecay :
       \E h \in HeadKinds, t \in [2 .. n -> DauKinds], E \in SUBSET Pairs(n) :
         genParticle = DecayList(n, h, t, E)
  /\ finalState = <<>>
  /\ pc = "bhadrons"
  /\ bHadronIdxs = {}
  /\ leptonIdxs = <<>>
  /\ neutrinos = <<>>
  /\ fjLepJets = <<>>
  /\ leptons = <<>>
  /\ lepDauIdxs = {}
  /\ jets = <<>>
  /\ bjetIdxs = <<>>
  /\ ljetIdxs = <<>>
  /\ sel = NoSel
  /\ pseudoTop = <<>>
  /\ event = NoEvent

NextClassify == CollectBHadrons

SpecClassify == InitClassify /\ [][NextClassify]_vars

----------------------------------------------------------------------------
(* What the claims about the combinator speak of.                          *)

Combined == pc \in {"link", "put", "done"}

OppositeSign == Len(leptons) = 2 /\ At(leptons, 0).charge * At(leptons, 1).charge < 0

\* The event enters the dilepton channel and passes its charge test.
DileptonCase ==
  Combined /\ Len(bjetIdxs) >= 2 /\ Len(leptons) = 2 /\ Len(neutrinos) >= 2 /\ OppositeSign

\* The event enters the semileptonic channel.
SemileptonCase ==
  Combined /\ Len(bjetIdxs) >= 2 /\ Len(leptons) = 1 /\ Len(neutrinos) >= 1

LeptonPos == CHOOSE l \in {At(leptons, 0), At(leptons, 1)} : l.charge > 0

LeptonNeg == CHOOSE l \in {At(leptons, 0), At(leptons, 1)} : l.charge < 0

LexLess2(a, b) == a[1] < b[1] \/ (a[1] = b[1] /\ a[2] < b[2])

LexLess3(a, b) == a[1] < b[1] \/ (a[1] = b[1] /\ LexLess2(<<a[2], a[3]>>, <<b[2], b[3]>>))

\* p is the first of the candidates, in iteration order, at which dev is least.
FirstMinimum2(p, candidates, dev(_)) ==
  /\ p \in candidates
  /\ \A c \in candidates : dev(p) <= dev(c) /\ (dev(c) = dev(p) => ~LexLess2(c, p))

FirstMinimum3(p, candidates, dev(_)) ==
  /\ p \in candidates
  /\ \A c \in candidates : dev(p) <= dev(c) /\ (dev(c) = dev(p) => ~LexLess3(c, p))

NuPairs == { c \in Indices(neutrinos) \X Indices(neutrinos) : c[1] # c[2] }

\* Ordered pairs of distinct positions in the b-jet list.
BPairs == { c \in Indices(bjetIdxs) \X Indices(bjetIdxs) : c[1] # c[2] }

\* A neutrino with every pair of light-jet positions, the first before the second.
NuJetPairs ==
  { c \in Indices(neutrinos) \X Indices(ljetIdxs) \X Indices(ljetIdxs) : c[2] < c[3] }

BJetAt(a) == At(jets, At(bjetIdxs, a))

LJetAt(a) == At(jets, At(ljetIdxs, a))

PosOf(idxs, j) == CHOOSE a \in Indices(idxs) : At(idxs, a) = j

WDev(p) == Abs(Mass(p) - wMass_)

TDev(p) == Abs(Mass(p) - tMass_)

DileptonNuDev(c) ==
  WDev(Plus(LeptonPos.p4, At(neutrinos, c[1]).p4))
    + WDev(Plus(LeptonNeg.p4, At(neutrinos, c[2]).p4))

DileptonW1 == Plus(LeptonPos.p4, At(neutrinos, sel.selNu1).p4)

DileptonW2 == Plus(LeptonNeg.p4, At(neutrinos, sel.selNu2).p4)

DileptonTopDev(c) ==
  TDev(Plus(DileptonW1, BJetAt(c[1]).p4)) + TDev(Plus(DileptonW2, BJetAt(c[2]).p4))

SemileptonWDev(c) ==
  WDev(Plus(At(leptons, 0).p4, At(neutrinos, c[1]).p4))
    + WDev(Plus(LJetAt(c[2]).p4, LJetAt(c[3]).p4))

SemileptonW1 == Plus(At(leptons, 0).p4, At(neutrinos, sel.selNu).p4)

SemileptonW2 == Plus(At(jets, sel.selJ1).p4, At(jets, sel.selJ2).p4)

SemileptonTopDev(c) ==
  TDev(Plus(SemileptonW1, BJetAt(c[1]).p4)) + TDev(Plus(SemileptonW2, BJetAt(c[2]).p4))

P4sOf(tree, idxs) == [k \in 1 .. Len(idxs) |-> At(tree, idxs[k]).p4]

----------------------------------------------------------------------------
(* C1: the pseudo-top collection, while it is built and as it is put, has  *)
(* 0 or 10 entries, whatever the leptons, neutrinos, jets, charges and     *)
(* mass deviations; an aborted search leaves no partial tree.              *)
C1_TreeSizeZeroOrTen ==
  /\ Len(pseudoTop) \in {0, 10}
  /\ Len(event.pseudoTop) \in {0, 10}

\* A semileptonic event whose light-jet search fails (one light jet only), put.
C1_Witness_AbortedSearch ==
  /\ pc = "done"
  /\ SemileptonCase
  /\ Len(ljetIdxs) = 1
  /\ sel.selNu = -1
  /\ event.pseudoTop = <<>>

(* C2: the pseudo-top collection is non-empty only with at least two       *)
(* b-jets and either exactly two opposite-sign leptons and at least two    *)
(* neutrinos, or exactly one lepton and at least one neutrino; a two-      *)
(* lepton event never reaches the semileptonic channel.                    *)
C2_NonEmptyOnlyInSupportedChannels ==
  /\ (Len(pseudoTop) > 0 \/ Len(event.pseudoTop) > 0)
       => /\ Len(bjetIdxs) >= 2
          /\ \/ (Len(leptons) = 2 /\ OppositeSign /\ Len(neutrinos) >= 2)
             \/ (Len(leptons) = 1 /\ Len(neutrinos) >= 1)
  /\ (Combined /\ Len(leptons) = 2) => (sel.selNu = -1 /\ sel.selJ1 = -1 /\ sel.selJ2 = -1)

\* Two same-sign leptons with everything else a channel could ask for: no output.
C2_Witness_SameSignDilepton ==
  /\ pc = "done"
  /\ Len(leptons) = 2
  /\ At(leptons, 0).charge = At(leptons, 1).charge
  /\ Len(bjetIdxs) >= 2
  /\ Len(ljetIdxs) >= 2
  /\ Len(neutrinos) >= 2
  /\ event.pseudoTop = <<>>

(* C4: in the dilepton channel the selected neutrino pair is the first, in *)
(* iteration order, of the ordered pairs of distinct neutrinos with the    *)
(* least summed W-mass deviation (positive lepton with the first neutrino, *)
(* negative lepton with the second), the selected b-jet pair is the first  *)
(* of the ordered pairs of distinct b-jets with the least summed top-mass  *)
(* deviation, and the tree carries exactly these legs.                     *)
C4_DileptonSelectionIsFirstMinimum ==
  DileptonCase =>
    /\ FirstMinimum2(<<sel.selNu1, sel.selNu2>>, NuPairs, DileptonNuDev)
    /\ sel.selB1 \in Indices(jets) /\ sel.selB2 \in Indices(jets)
    /\ At(jets, sel.selB1).pdgId = 5 /\ At(jets, sel.selB2).pdgId = 5
    /\ FirstMinimum2(<<PosOf(bjetIdxs, sel.selB1), PosOf(bjetIdxs, sel.selB2)>>,
                     BPairs, DileptonTopDev)
    /\ P4sOf(pseudoTop, <<4, 5, 3, 8, 9, 7>>)
         = << LeptonPos.p4, At(neutrinos, sel.selNu1).p4, At(jets, sel.selB1).p4,
              LeptonNeg.p4, At(neutrinos, sel.selNu2).p4, At(jets, sel.selB2).p4 >>
    /\ P4sOf(pseudoTop, <<2, 6, 0, 1>>)
         = << DileptonW1, DileptonW2,
              Plus(DileptonW1, At(jets, sel.selB1).p4),
              Plus(DileptonW2, At(jets, sel.selB2).p4) >>

\* Three neutrinos and three b-jets, the least neutrino deviation reached by two
\* pairs, and the selected pairs not the first ones visited.
C4_Witness_TieAmongNeutrinoPairs ==
  /\ pc = "done"
  /\ DileptonCase
  /\ Len(neutrinos) = 3
  /\ Len(bjetIdxs) = 3
  /\ \E c \in NuPairs : /\ c # <<sel.selNu1, sel.selNu2>>
                        /\ DileptonNuDev(c) = DileptonNuDev(<<sel.selNu1, sel.selNu2>>)
  /\ <<sel.selNu1, sel.selNu2>> # <<0, 1>>
  /\ <<sel.selB1, sel.selB2>> # <<At(bjetIdxs, 0), At(bjetIdxs, 1)>>

(* C5: in the semileptonic channel the selected neutrino and light-jet     *)
(* pair are the first, in iteration order, of the neutrinos with the pairs *)
(* of light jets (first before second in the light-jet list) with the      *)
(* least summed W-mass deviation, the selected b-jet pair then is the      *)
(* first with the least summed top-mass deviation, and the tree carries    *)
(* these legs; with fewer than two light jets nothing is selected and the  *)
(* tree is empty.                                                          *)
C5_SemileptonSelectionIsFirstMinimum ==
  SemileptonCase =>
    IF Len(ljetIdxs) < 2
    THEN sel.selNu = -1 /\ sel.selJ1 = -1 /\ sel.selJ2 = -1 /\ pseudoTop = <<>>
    ELSE
      /\ sel.selJ1 \in Indices(jets) /\ sel.selJ2 \in Indices(jets)
      /\ At(jets, sel.selJ1).pdgId # 5 /\ At(jets, sel.selJ2).pdgId # 5
      /\ FirstMinimum3(<<sel.selNu, PosOf(ljetIdxs, sel.selJ1), PosOf(ljetIdxs, sel.selJ2)>>,
                       NuJetPairs, SemileptonWDev)
      /\ sel.selB1 \in Indices(jets) /\ sel.selB2 \in Indices(jets)
      /\ At(jets, sel.selB1).pdgId = 5 /\ At(jets, sel.selB2).pdgId = 5
      /\ FirstMinimum2(<<PosOf(bjetIdxs, sel.selB1), PosOf(bjetIdxs, sel.selB2)>>,
                       BPairs, SemileptonTopDev)
      /\ P4sOf(pseudoTop, <<4, 5, 3, 8, 9, 7>>)
           = << At(leptons, 0).p4, At(neutrinos, sel.selNu).p4, At(jets, sel.selB1).p4,
                At(jets, sel.selJ1).p4, At(jets, sel.selJ2).p4, At(jets, sel.selB2).p4 >>
      /\ P4sOf(pseudoTop, <<2, 6, 0, 1>>)
           = << SemileptonW1, SemileptonW2,
                Plus(SemileptonW1, At(jets, sel.selB1).p4),
                Plus(SemileptonW2, At(jets, sel.selB2).p4) >>

\* Two neutrinos, three light jets and two b-jets, the least deviation reached by
\* two combinations, and the selected one not the first visited.
C5_Witness_TieAmongLightJetPairs ==
  /\ pc = "done"
  /\ SemileptonCase
  /\ Len(neutrinos) = 2
  /\ Len(ljetIdxs) = 3
  /\ LET s == <<sel.selNu, PosOf(ljetIdxs, sel.selJ1), PosOf(ljetIdxs, sel.selJ2)>>
     IN  /\ \E c \in NuJetPairs : c # s /\ SemileptonWDev(c) = SemileptonWDev(s)
         /\ s # <<0, 0, 1>>
  /\ Len(event.pseudoTop) = 10

(* C6: a pseudo-top collection of ten entries is linked exactly by the     *)
(* scheme 0->{2,3}, 1->{6,7}, 2->{4,5}, 6->{8,9}, every link in both       *)
(* directions and once: 0 and 1 have no mother, every other entry has one, *)
(* 3, 4, 5, 7, 8, 9 have no daughter.  An empty collection has no entry    *)
(* to link.                                                                *)
Scheme == { <<0, 2>>, <<0, 3>>, <<1, 6>>, <<1, 7>>, <<2, 4>>, <<2, 5>>, <<6, 8>>, <<6, 9>> }

Range(s) == { s[k] : k \in 1 .. Len(s) }

LinkedByScheme(tree) ==
  /\ \A x \in 0 .. 9 : \A y \in 0 .. 9 :
       /\ (y \in Range(At(tree, x).daughters)) <=> (<<x, y>> \in Scheme)
       /\ (x \in Range(At(tree, y).mothers)) <=> (<<x, y>> \in Scheme)
  /\ \A x \in 0 .. 9 :
       /\ Range(At(tree, x).daughters) \subseteq 0 .. 9
       /\ Range(At(tree, x).mothers) \subseteq 0 .. 9
       /\ Len(At(tree, x).daughters) = (IF x \in {0, 1, 2, 6} THEN 2 ELSE 0)
       /\ Len(At(tree, x).mothers) = (IF x \in {0, 1} THEN 0 ELSE 1)

C6_TreeLinkedByFixedScheme ==
  /\ (pc \in {"put", "done"} /\ Len(pseudoTop) = 10) => LinkedByScheme(pseudoTop)
  /\ Len(event.pseudoTop) = 10 => LinkedByScheme(event.pseudoTop)
  /\ (pc \in {"put", "done"} /\ Len(pseudoTop) # 10) => pseudoTop = <<>>

\* A complete semileptonic tree has been linked and put.
C6_Witness_LinkedTreePut ==
  /\ pc = "done"
  /\ Len(leptons) = 1
  /\ Len(event.pseudoTop) = 10
  /\ At(event.pseudoTop, 6).daughters = <<8, 9>>
  /\ At(event.pseudoTop, 9).mothers = <<6>>

(* C8: in the dilepton channel the top candidates at 0 and 1 have charge   *)
(* +-2/3 and code +-6, and the W candidates at 2 and 6 charge +-1 and code *)
(* +-24, with the sign of the charge of the lepton whose four-momentum     *)
(* went into that candidate (the leg at 4 for 0 and 2, the leg at 8 for 1  *)
(* and 6), whichever of the two leptons comes first in the lepton list.    *)
LeptonWithP4(p) == CHOOSE l \in Range(leptons) : l.p4 = p

SignedLike(cand, lepton, absCharge3, absPdgId) ==
  /\ cand.charge3 = absCharge3 * lepton.charge
  /\ cand.pdgId = absPdgId * lepton.charge

C8_DileptonSignsFollowTheLepton ==
  (DileptonCase /\ Len(pseudoTop) = 10) =>
    LET first == LeptonWithP4(At(pseudoTop, 4).p4)
        second == LeptonWithP4(At(pseudoTop, 8).p4)
    IN  /\ first = LeptonPos
        /\ second = LeptonNeg
        /\ SignedLike(At(pseudoTop, 0), first, 2, 6)
        /\ SignedLike(At(pseudoTop, 2), first, 3, 24)
        /\ SignedLike(At(pseudoTop, 1), second, 2, 6)
        /\ SignedLike(At(pseudoTop, 6), second, 3, 24)

----------------------------------------------------------------------------
(* What the claims about the classifier, the dresser and the jet builder    *)
(* speak of.                                                               *)

Dressed == pc \in {"jets", "combine", "link", "put", "done"}

JetsBuilt == pc \in {"combine", "link", "put", "done"}

IsChargedLepton(index) == Abs(At(finalState, index).pdgId) \in {11, 13}

\* The positions, in visiting order, of the charged leptons of a lepton jet.
LeptonPositions(fjJet) ==
  { k \in 1 .. Len(fjJet.fjConstituents) : IsChargedLepton(fjJet.fjConstituents[k].user_index) }

\* Those of them of the highest pt.
TopLeptonPositions(fjJet) ==
  { k \in LeptonPositions(fjJet) :
      \A l \in LeptonPositions(fjJet) :
        Pt(fjJet.fjConstituents[k].p4) >= Pt(fjJet.fjConstituents[l].p4) }

Least(S) == CHOOSE k \in S : \A l \in S : k <= l

Greatest(S) == CHOOSE k \in S : \A l \in S : k >= l

VisitedInPtOrder(fjJet) ==
  \A k, l \in 1 .. Len(fjJet.fjConstituents) :
    k < l => Pt(fjJet.fjConstituents[k].p4) >= Pt(fjJet.fjConstituents[l].p4)

\* A lepton jet that passes the eta cut and holds a charged lepton.
IsAccepted(fjJet) ==
  /\ ~AbsEtaExceeds(fjJet.p4, leptonMaxEta_)
  /\ LeptonPositions(fjJet) # {}

\* The dressed leptons are the accepted lepton jets, in order, each with the code
\* and charge of the constituent at pick(the positions of its top leptons), and
\* the consumed indices are exactly the constituents of the accepted jets.
DressedBy(pick(_)) ==
  LET accepted == SelectSeq(fjLepJets, IsAccepted)
  IN  /\ \A k \in 1 .. Len(fjLepJets) : VisitedInPtOrder(fjLepJets[k])
      /\ Len(leptons) = Len(accepted)
      /\ \A k \in 1 .. Len(accepted) :
           LET rep == At(finalState,
                         accepted[k].fjConstituents[pick(TopLeptonPositions(accepted[k]))].user_index)
           IN  /\ leptons[k].p4 = accepted[k].p4
               /\ leptons[k].pdgId = rep.pdgId
               /\ leptons[k].charge = rep.charge
      /\ lepDauIdxs = UNION { UserIndices(accepted[k].fjConstituents) : k \in 1 .. Len(accepted) }
      /\ \A k \in 1 .. Len(fjLepJets) :
           LeptonPositions(fjLepJets[k]) = {}
             => UserIndices(fjLepJets[k].fjConstituents) \cap lepDauIdxs = {}

NonIncreasingPt(s) == \A k, l \in 1 .. Len(s) : k < l => Pt(s[k].p4) >= Pt(s[l].p4)

\* The b-hadron code test, digit by decimal digit.
Digit(c, place) == (c % (10 * place)) \div place

PassesDigitTest(code) ==
  LET c == Abs(code)
  IN  /\ c > 100
      /\ c < 1000000000
      /\ Digit(c, 10) # 0
      /\ \/ (Digit(c, 1000) = 0 /\ Digit(c, 100) = 5)
         \/ Digit(c, 1000) = 5

----------------------------------------------------------------------------
(* C3: no index is a constituent both of a dressed lepton and of a jet:    *)
(* every index consumed by an accepted lepton cluster is absent from the   *)
(* constituents of every jet, the indices of the b-hadron ghosts included. *)
C3_JetsAvoidLeptonConstituents ==
  /\ JetsBuilt => \A k \in 1 .. Len(jets) : Range(jets[k].constituents) \cap lepDauIdxs = {}
  /\ \A k \in 1 .. Len(event.jets) : Range(event.jets[k].constituents) \cap lepDauIdxs = {}

\* The same, for the events whose two input tags name one collection.
JetsAvoidLeptonConstituentsOfOneCollection ==
  genParticle = finalState => C3_JetsAvoidLeptonConstituents

(* C7: the neutrino collection is in non-increasing pt from the sort on,   *)
(* is not changed between the sort and the put, and is put as it is: the   *)
(* combinator sees the order that is put.                                  *)
C7_NeutrinosSortedAndUntouched ==
  /\ [](pc \notin {"bhadrons", "stables"} => NonIncreasingPt(neutrinos))
  /\ [](pc = "done" => event.neutrinos = neutrinos)
  /\ [][pc \notin {"bhadrons", "stables"} => neutrinos' = neutrinos]_vars

\* Two neutrinos met in increasing pt in the final states and put in decreasing pt.
C7_Witness_SortReorders ==
  /\ pc = "done"
  /\ Len(event.neutrinos) >= 2
  /\ Pt(event.neutrinos[1].p4) > Pt(event.neutrinos[2].p4)
  /\ \E i, j \in Indices(finalState) :
       /\ i < j
       /\ Abs(At(finalState, i).pdgId) \in {12, 14, 16}
       /\ Abs(At(finalState, j).pdgId) \in {12, 14, 16}
       /\ Pt(At(finalState, i).p4) < Pt(At(finalState, j).p4)

(* C9, as claimed: the code and charge of a dressed lepton are those of    *)
(* the highest-pt charged-lepton constituent of its cluster, the           *)
(* first-seen one when several have that pt; a cluster without a charged   *)
(* lepton is discarded and none of its indices is consumed.                *)
C9_RepresentativeIsFirstSeenTopLepton == Dressed => DressedBy(Least)

(* C9, as amended: the same, but when several charged-lepton constituents  *)
(* have the highest pt the last-seen of them is the representative.        *)
C9_RepresentativeIsLastSeenTopLepton == Dressed => DressedBy(Greatest)

\* An accepted cluster with an electron and a muon of the same, highest pt.
C9_Witness_TiedLeptons ==
  /\ pc = "done"
  /\ \E k \in 1 .. Len(fjLepJets) :
       /\ IsAccepted(fjLepJets[k])
       /\ Cardinality(TopLeptonPositions(fjLepJets[k])) >= 2
       /\ \E a, b \in TopLeptonPositions(fjLepJets[k]) :
            At(finalState, fjLepJets[k].fjConstituents[a].user_index).pdgId
              # At(finalState, fjLepJets[k].fjConstituents[b].user_index).pdgId
  /\ \E k \in 1 .. Len(fjLepJets) : LeptonPositions(fjLepJets[k]) = {}

(* C10: the b-hadron indices are exactly the indices of the generated      *)
(* candidates that are not of status 1, whose absolute code lies strictly  *)
(* between 100 and 1e9 with a nonzero tens digit and (thousands, hundreds) *)
(* digits (0, 5) or thousands digit 5, and none of whose direct daughters  *)
(* has such a code: of a chain of b hadrons only the last is kept.         *)
C10_BHadronsAreLastOfTheirChain ==
  pc # "bhadrons" =>
    /\ \A i \in Indices(genParticle) :
         i \in bHadronIdxs <=>
           /\ At(genParticle, i).status # 1
           /\ PassesDigitTest(At(genParticle, i).pdgId)
           /\ \A d \in At(genParticle, i).daughters :
                ~PassesDigitTest(At(genParticle, d).pdgId)
    /\ bHadronIdxs \subseteq Indices(genParticle)
    /\ \A i \in Indices(genParticle) :
         (Abs(At(genParticle, i).pdgId) = 521 /\ At(genParticle, i).status # 1
            /\ At(genParticle, i).daughters = {}) => i \in bHadronIdxs

\* A chain 513 -> 511 -> -5122 of unstable b hadrons: only the last is kept.
C10_Witness_ChainOfThree ==
  /\ pc = "stables"
  /\ Len(genParticle) = 3
  /\ At(genParticle, 0).pdgId = 513 /\ At(genParticle, 0).status = 2
  /\ At(genParticle, 0).daughters = {1}
  /\ At(genParticle, 1).pdgId = 511 /\ At(genParticle, 1).daughters = {2}
  /\ At(genParticle, 2).pdgId = -5122
  /\ bHadronIdxs = {2}

----------------------------------------------------------------------------
\* The candidate h has the charge and the species code of l, both negated.
Negates(h, l) == h.charge3 = -l.charge3 /\ h.pdgId = -l.pdgId

(* C11: in the semileptonic channel the hadronic-side top, W and b (output *)
(* indices 1, 6, 7) have the charge and the species code of their          *)
(* leptonic-side counterparts (indices 0, 2, 3), both negated, for either  *)
(* sign of the lepton.                                                     *)
C11_HadronicSideNegatesLeptonic ==
  (SemileptonCase /\ Len(pseudoTop) = 10) =>
    /\ Negates(At(pseudoTop, 1), At(pseudoTop, 0))
    /\ Negates(At(pseudoTop, 6), At(pseudoTop, 2))
    /\ Negates(At(pseudoTop, 7), At(pseudoTop, 3))

\* The same of the top and the W alone, and of the species code of the b.
HadronicTopAndWNegateLeptonic ==
  (SemileptonCase /\ Len(pseudoTop) = 10) =>
    /\ Negates(At(pseudoTop, 1), At(pseudoTop, 0))
    /\ Negates(At(pseudoTop, 6), At(pseudoTop, 2))
    /\ At(pseudoTop, 7).pdgId = -At(pseudoTop, 3).pdgId
    /\ At(pseudoTop, 3).charge3 = -At(leptons, 0).charge
    /\ At(pseudoTop, 7).charge3 = 0

====
